---- MODULE Spec2Model ----
(***************************************************************************)
(* NeuroSync Cortex backend (src/backend/main.py): the two fetchers, the   *)
(* model discovery, the synthesis generator and the cached /feed endpoint. *)
(*                                                                         *)
(* Python's None is the empty sequence and a present value x is <<x>>.     *)
(* Time is counted in minutes.                                             *)
(***************************************************************************)
EXTENDS Integers, Sequences, FiniteSets, TLC

VARIABLES
    \* ---- the /feed service
    rich,       \* which input universe the run draws upstream outcomes from
    env_key,    \* the LLM_API_KEY environment variable (None when unset)
    API_KEY,    \* module constant API_KEY (line 17)
    cache,      \* module global cache (lines 51-54)
    clock,      \* what datetime.now() returns
    req,        \* one record per GET /feed request: position and locals
    \* ---- fetch_web_news run on its own
    nlimit,     \* its limit argument
    nup,        \* what the news provider answers to the three keyword searches
    nst,        \* position and locals of the run
    \* ---- fetch_arxiv_papers run on its own
    pup,        \* what the paper source answers
    pres,       \* the returned list (None before the call)
    \* ---- get_best_available_model run on its own
    listing,    \* what the provider's model listing answers
    mres        \* the returned model name (None before the call)

vars == <<rich, env_key, API_KEY, cache, clock, req, nlimit, nup, nst, pup, pres, listing, mres>>
feedVars == <<rich, env_key, API_KEY, cache, clock, req>>
newsVars == <<nlimit, nup, nst>>
paperVars == <<pup, pres>>
modelVars == <<listing, mres>>
standaloneVars == <<nlimit, nup, nst, pup, pres, listing, mres>>

None == <<>>
Some(x) == <<x>>

Min(a, b) == IF a < b THEN a ELSE b

\* s[:n] of Python, for n >= 0
Prefix(s, n) == SubSeq(s, 1, Min(n, Len(s)))

(***************************************************************************)
(* Bounds of the model                                                     *)
(***************************************************************************)
MaxReqs == 3        \* GET /feed requests of one run
Quantum == 10       \* minutes the clock advances in one step
MaxClock == 90      \* the clock stops advancing here
StartClock == 40    \* minute of the day the process starts at
MaxBatch == 2       \* items one keyword search returns (stand-alone news runs)
MaxLimit == 3       \* largest small limit tried on fetch_web_news
MaxPapers == 3      \* records of a paper batch (stand-alone paper runs)
MaxModels == 3      \* entries of a model listing (stand-alone discovery runs)
ManyPapers == 60    \* a paper source that ignores max_results

(***************************************************************************)
(* Program constants                                                       *)
(***************************************************************************)
TTL == 30               \* timedelta(minutes=30)
ArticleCap == 50        \* all_raw[:50]
NewsDefaultLimit == 20  \* fetch_web_news(limit=20)
NumKeywords == 3        \* len(keywords)
HTTP_OK == 200

(***************************************************************************)
(* fetch_arxiv_papers                                                      *)
(*                                                                         *)
(* The paper source answers with a sequence of records; a record whose     *)
(* mapping to Article raises has ok = FALSE.  fail = TRUE is the client or *)
(* the result iterator raising.                                            *)
(***************************************************************************)
PaperArticle(r) == [type |-> "paper", id |-> r.entry, url |-> r.entry]

RECURSIVE PaperLoop(_, _, _)
PaperLoop(items, i, results) ==
    IF i > Len(items) THEN results
    ELSE IF items[i].ok
         THEN PaperLoop(items, i + 1, Append(results, PaperArticle(items[i])))
         ELSE PaperLoop(items, i + 1, results)      \* except Exception: continue

fetch_arxiv_papers(out) ==
    IF out.fail THEN <<>>                           \* outer except: return []
    ELSE PaperLoop(out.items, 1, <<>>)

(***************************************************************************)
(* fetch_web_news                                                          *)
(*                                                                         *)
(* up[k] is the provider's answer to the k-th keyword search: fail = TRUE  *)
(* is ddgs.news raising, otherwise items is the batch; an item whose       *)
(* mapping to Article raises has ok = FALSE.                               *)
(*                                                                         *)
(* NewsStep is one iteration of the loops: at "kw" the head of the keyword *)
(* loop, at "item" the head of the item loop.                              *)
(***************************************************************************)
NewsArticle(item, n) == [type |-> "news", id |-> n, url |-> item.url]

NewsStart == [pc |-> "kw", k |-> 1, i |-> 1, results |-> <<>>, searches |-> 0,
              raised |-> FALSE]

\* mutant: line 141 is missing, the keyword loop goes on after the inner break
OuterBreakMissing(st, limit) == [st EXCEPT !.pc = "kw", !.k = st.k + 1]

\* the outer `if len(results) >= limit: break` (line 141)
OuterBreak(st, limit) ==
    IF Len(st.results) >= limit THEN [st EXCEPT !.pc = "done"]
    ELSE [st EXCEPT !.pc = "kw", !.k = st.k + 1]

\* except Exception: return []  (lines 142-144)
NewsRaise(st) == [st EXCEPT !.pc = "done", !.results = <<>>, !.raised = TRUE]

NewsStep(st, limit, up) ==
    IF st.pc = "kw" THEN
        IF st.k > NumKeywords THEN [st EXCEPT !.pc = "done"]
        ELSE IF up[st.k].fail
             THEN NewsRaise([st EXCEPT !.searches = st.searches + 1])
             ELSE [st EXCEPT !.pc = "item", !.i = 1, !.searches = st.searches + 1]
    ELSE IF st.pc = "item" THEN
        IF st.i > Len(up[st.k].items) THEN OuterBreak(st, limit)
        ELSE LET item == up[st.k].items[st.i] IN
             IF ~item.ok THEN NewsRaise(st)
             ELSE LET st2 == [st EXCEPT !.results =
                                  Append(st.results, NewsArticle(item, Len(st.results)))]
                  IN IF Len(st2.results) >= limit       \* line 140
                     THEN OuterBreak(st2, limit)
                     ELSE [st2 EXCEPT !.i = st.i + 1]
    ELSE st

RECURSIVE NewsRun(_, _, _)
NewsRun(st, limit, up) ==
    IF st.pc = "done" THEN st ELSE NewsRun(NewsStep(st, limit, up), limit, up)

fetch_web_news(limit, up) == NewsRun(NewsStart, limit, up)

(***************************************************************************)
(* get_best_available_model                                                *)
(*                                                                         *)
(* A model name is a sequence of pieces ("models/", "gemini-1.5-flash",    *)
(* "-001"); p in name holds when p is one of the pieces, and               *)
(* name.replace("models/", "") drops every "models/" piece.  A listing is  *)
(* the answer to the GET: exc = TRUE is requests.get raising, json_ok =    *)
(* FALSE is response.json() raising; an entry without the                  *)
(* supportedGenerationMethods key has methods = None.                      *)
(***************************************************************************)
priorities == <<"gemini-1.5-flash", "gemini-1.5-pro", "gemini-pro", "gemini-1.0-pro">>

DefaultModel == <<"gemini-1.5-flash">>

Contains(p, name) == \E i \in 1..Len(name) : name[i] = p

IsNotPrefix(t) == t # "models/"

StripModels(name) == SelectSeq(name, IsNotPrefix)

NoPick == [kind |-> "none", name |-> <<>>]
Raised == [kind |-> "raise", name |-> <<>>]
Pick(name) == [kind |-> "ret", name |-> StripModels(name)]

\* mutant: the loops are nested the other way round (for m in models: for p in priorities)
RECURSIVE ModelFirstScan(_, _, _)
ModelFirstScan(models, p, m) ==
    IF m > Len(models) THEN NoPick
    ELSE IF p > Len(priorities) THEN ModelFirstScan(models, 1, m + 1)
    ELSE IF Contains(priorities[p], models[m].name)
         THEN IF models[m].methods = None THEN Raised
              ELSE IF "generateContent" \in models[m].methods[1]
                   THEN Pick(models[m].name)
                   ELSE ModelFirstScan(models, p + 1, m)
         ELSE ModelFirstScan(models, p + 1, m)

\* for p in priorities: for m in models: ...  (lines 76-81)
RECURSIVE PriorityScan(_, _, _)
PriorityScan(models, p, m) ==
    IF p > Len(priorities) THEN NoPick
    ELSE IF m > Len(models) THEN PriorityScan(models, p + 1, 1)
    ELSE IF Contains(priorities[p], models[m].name)
         THEN IF models[m].methods = None THEN Raised             \* KeyError
              ELSE IF "generateContent" \in models[m].methods[1]
                   THEN Pick(models[m].name)
                   ELSE PriorityScan(models, p, m + 1)
         ELSE PriorityScan(models, p, m + 1)

\* for m in models: ...  (lines 84-86)
RECURSIVE AnyScan(_, _)
AnyScan(models, m) ==
    IF m > Len(models) THEN NoPick
    ELSE IF models[m].methods = None THEN Raised                  \* KeyError
    ELSE IF "generateContent" \in models[m].methods[1] THEN Pick(models[m].name)
    ELSE AnyScan(models, m + 1)

get_best_available_model(lst) ==
    IF lst.exc THEN DefaultModel                       \* except Exception
    ELSE IF lst.status # HTTP_OK THEN DefaultModel     \* line 67
    ELSE IF ~lst.json_ok THEN DefaultModel             \* except Exception
    ELSE LET first == PriorityScan(lst.models, 1, 1) IN
         IF first.kind = "ret" THEN first.name
         ELSE IF first.kind = "raise" THEN DefaultModel
         ELSE LET second == AnyScan(lst.models, 1) IN
              IF second.kind = "ret" THEN second.name
              ELSE DefaultModel                        \* line 88, or except

(***************************************************************************)
(* generate_synthesis_raw_http                                             *)
(*                                                                         *)
(* gen is the provider's answer to the generateContent POST: exc = TRUE is *)
(* requests.post raising; otherwise status, and for a 200 the shape of the *)
(* body: "text" a string at candidates[0].content.parts[0].text, "null" a  *)
(* JSON null there, "keyerror" / "indexerror" a missing key or an empty    *)
(* list on the path, "typeerror" a value of the wrong type on the path,    *)
(* "badjson" a body that is no JSON.  The result is what the function      *)
(* returns (str = FALSE: a value that is no string) and the calls it made. *)
(***************************************************************************)
SynthOffline == <<"Synthesis Offline: API Key missing.">>
SynthWeak == <<"Neural signal weak: AI returned empty response.">>
SynthCritical == <<"Neural uplink critical failure.">>
SynthError(status) == <<"Neural uplink error: ", ToString(status), ". Raw signal rejected.">>
LLMText == <<"(text written by the model)">>
JsonNull == <<"null">>

PromptTitles == 30      \* articles[:30]

\* mutant: the test of API_KEY (lines 151-152) is missing
synthesis_key_untested(key, articles, lst, gen) ==
    LET model_name == get_best_available_model(lst)
        sent == [discovery |-> 1, generate |-> 1, model |-> Some(model_name),
                 titles |-> Len(Prefix(articles, PromptTitles))]
        ret(v, s) == [value |-> v, str |-> s] @@ sent
    IN IF gen.exc THEN ret(SynthCritical, TRUE)
       ELSE IF gen.status = HTTP_OK
            THEN CASE gen.shape = "text" -> ret(LLMText, TRUE)
                   [] gen.shape = "null" -> ret(JsonNull, FALSE)
                   [] gen.shape \in {"keyerror", "indexerror"} -> ret(SynthWeak, TRUE)
                   [] OTHER -> ret(SynthCritical, TRUE)
            ELSE ret(SynthError(gen.status), TRUE)

generate_synthesis_raw_http(key, articles, lst, gen) ==
    IF key = <<>>                                                  \* if not API_KEY
    THEN [value |-> SynthOffline, str |-> TRUE, discovery |-> 0, generate |-> 0,
          model |-> None, titles |-> 0]
    ELSE LET model_name == get_best_available_model(lst)
             sent == [discovery |-> 1, generate |-> 1, model |-> Some(model_name),
                      titles |-> Len(Prefix(articles, PromptTitles))]
             ret(v, s) == [value |-> v, str |-> s] @@ sent
         IN IF gen.exc THEN ret(SynthCritical, TRUE)
            ELSE IF gen.status = HTTP_OK
                 THEN CASE gen.shape = "text" -> ret(LLMText, TRUE)
                        [] gen.shape = "null" -> ret(JsonNull, FALSE)
                        [] gen.shape \in {"keyerror", "indexerror"} -> ret(SynthWeak, TRUE)
                        [] OTHER -> ret(SynthCritical, TRUE)   \* outer except Exception
                 ELSE ret(SynthError(gen.status), TRUE)

(***************************************************************************)
(* Configuration: API_KEY = os.getenv("LLM_API_KEY", "").strip()           *)
(* The variable's value is a sequence of characters.                       *)
(***************************************************************************)
RECURSIVE LStrip(_)
LStrip(s) == IF s # <<>> /\ Head(s) = " " THEN LStrip(Tail(s)) ELSE s

RECURSIVE RStrip(_)
RStrip(s) == IF s # <<>> /\ s[Len(s)] = " " THEN RStrip(SubSeq(s, 1, Len(s) - 1)) ELSE s

Strip(s) == RStrip(LStrip(s))

LoadApiKey(env) == Strip(IF env = None THEN <<>> ELSE env[1])

(***************************************************************************)
(* Upstream outcomes the runs draw from                                    *)
(***************************************************************************)
GoodPapers(n) == [i \in 1..n |-> [entry |-> i, ok |-> TRUE]]

MixedPapers == <<[entry |-> 1, ok |-> TRUE], [entry |-> 2, ok |-> FALSE],
                 [entry |-> 3, ok |-> TRUE]>>

PaperInputs ==
    IF rich
    THEN {[fail |-> TRUE, items |-> MixedPapers], [fail |-> FALSE, items |-> <<>>],
          [fail |-> FALSE, items |-> MixedPapers],
          [fail |-> FALSE, items |-> GoodPapers(ArticleCap - 5)],
          [fail |-> FALSE, items |-> GoodPapers(ManyPapers)]}
    ELSE {[fail |-> TRUE, items |-> <<>>], [fail |-> FALSE, items |-> MixedPapers]}

\* the item at place i of the k-th keyword's batch
NewsItem(k, i, ok) == [url |-> 100 * k + i, ok |-> ok]

GoodBatch(k, n) == [fail |-> FALSE, items |-> [i \in 1..n |-> NewsItem(k, i, TRUE)]]

FailBatch == [fail |-> TRUE, items |-> <<>>]

NewsInputs ==
    IF rich
    THEN {<<FailBatch, FailBatch, FailBatch>>,
          <<GoodBatch(1, 2), FailBatch, GoodBatch(3, 1)>>,
          <<GoodBatch(1, 2), GoodBatch(2, 1), GoodBatch(3, 0)>>,
          <<GoodBatch(1, 5), GoodBatch(2, 5), GoodBatch(3, 5)>>,
          <<GoodBatch(1, 9), GoodBatch(2, 9), GoodBatch(3, 9)>>,
          <<GoodBatch(1, 2),
            [fail |-> FALSE, items |-> <<NewsItem(2, 1, FALSE)>>],
            GoodBatch(3, 1)>>}
    ELSE {<<FailBatch, FailBatch, FailBatch>>,
          <<GoodBatch(1, 2), GoodBatch(2, 1), GoodBatch(3, 0)>>}

Generating == {"generateContent", "countTokens"}
Embedding == {"embedContent"}

Entry(name, methods) == [name |-> name, methods |-> methods]

OkListing(models) == [exc |-> FALSE, status |-> HTTP_OK, json_ok |-> TRUE, models |-> models]

ListingInputs ==
    {OkListing(<<Entry(<<"models/", "embedding-001">>, Some(Embedding)),
                 Entry(<<"models/", "gemini-1.5-pro", "-001">>, Some(Generating))>>)}
    \cup IF rich
         THEN {[exc |-> TRUE, status |-> 0, json_ok |-> FALSE, models |-> <<>>],
               OkListing(<<Entry(<<"models/", "gemini-pro">>, None)>>)}
         ELSE {}

GenInputs ==
    {[exc |-> TRUE, status |-> 0, shape |-> "none"],
     [exc |-> FALSE, status |-> HTTP_OK, shape |-> "text"],
     [exc |-> FALSE, status |-> HTTP_OK, shape |-> "null"]}
    \cup IF rich
         THEN {[exc |-> FALSE, status |-> 429, shape |-> "none"],
               [exc |-> FALSE, status |-> 500, shape |-> "none"]}
              \cup {[exc |-> FALSE, status |-> HTTP_OK, shape |-> sh] :
                       sh \in {"keyerror", "indexerror", "typeerror", "badjson"}}
         ELSE {}

EnvKeys ==
    {None, Some(<<"k", "e", "y">>)}
    \cup IF rich THEN {Some(<<>>), Some(<<" ", " ">>), Some(<<" ", "k", " ">>)} ELSE {}

(***************************************************************************)
(* GET /feed                                                               *)
(*                                                                         *)
(* pc of a request: "queued" (dispatched, handler not started), then       *)
(* "fetch_papers", "fetch_news", "synth", "respond" inside the stale       *)
(* branch, and "done" (a FeedResponse returned) or "raised" (the handler   *)
(* raised: HTTP 500).  Requests are numbered in the order their handlers   *)
(* start.                                                                  *)
(***************************************************************************)
Reqs == 1..MaxReqs

Running == {"fetch_papers", "fetch_news", "synth", "respond"}

Finished == {"done", "raised"}

ReqInit == [pc |-> "queued", now |-> 0, stale |-> FALSE, papers |-> <<>>,
            news |-> <<>>, news_raised |-> FALSE, paper_calls |-> 0,
            searches |-> 0, syn |-> None, resp |-> None]

\* now.isoformat(): the hour and minute fields, compared field by field
isoformat(t) == <<t \div 60, t % 60>>

TsLess(a, b) == a[1] < b[1] \/ (a[1] = b[1] /\ a[2] < b[2])

\* mutant: the comparison of line 208 is reversed
IsFreshReversed(c, now) ==
    /\ c.data # None
    /\ c.last_updated # None
    /\ now - c.last_updated[1] > TTL

\* mutant: the cache never expires
IsFreshNoExpiry(c, now) == c.data # None /\ c.last_updated # None

\* the condition of line 208
IsFresh(c, now) ==
    /\ c.data # None
    /\ c.last_updated # None
    /\ now - c.last_updated[1] < TTL

\* mutant: the handler yields the event loop at every upstream call
LoopNeverHeld(r) == TRUE

\* get_feed is a coroutine with no await in its body (lines 203-228): once
\* started it holds the event loop until it returns or raises
LoopFree(r) == \A q \in Reqs \ {r} : req[q].pc \notin Running

NextInLine(r) == \A q \in Reqs : q < r => req[q].pc # "queued"

\* mutant: the articles are not capped
FeedResponseUncapped(syn, now, all_raw) ==
    IF ~syn.str THEN None
    ELSE Some([synthesis |-> syn.value, timestamp |-> isoformat(now),
               articles |-> all_raw])

\* FeedResponse(synthesis=..., timestamp=..., articles=...): None when the
\* validation of the str field synthesis raises
FeedResponse(syn, now, all_raw) ==
    IF ~syn.str THEN None
    ELSE Some([synthesis |-> syn.value,
               timestamp |-> isoformat(now),
               articles |-> Prefix(all_raw, ArticleCap)])

\* lines 207-209: the cache is fresh
ServeCached(r) ==
    /\ req[r].pc = "queued"
    /\ NextInLine(r)
    /\ LoopFree(r)
    /\ IsFresh(cache, clock)
    /\ req' = [req EXCEPT ![r].pc = "done", ![r].now = clock,
                          ![r].resp = cache.data]
    /\ UNCHANGED <<rich, env_key, API_KEY, cache, clock>>
    /\ UNCHANGED standaloneVars

\* lines 207-208: the cache is stale
BeginRefresh(r) ==
    /\ req[r].pc = "queued"
    /\ NextInLine(r)
    /\ LoopFree(r)
    /\ ~IsFresh(cache, clock)
    /\ req' = [req EXCEPT ![r].pc = "fetch_papers", ![r].now = clock,
                          ![r].stale = TRUE]
    /\ UNCHANGED <<rich, env_key, API_KEY, cache, clock>>
    /\ UNCHANGED standaloneVars

\* line 212
FetchPapers(r) ==
    /\ req[r].pc = "fetch_papers"
    /\ \E out \in PaperInputs :
          req' = [req EXCEPT ![r].pc = "fetch_news",
                             ![r].papers = fetch_arxiv_papers(out),
                             ![r].paper_calls = 1]
    /\ UNCHANGED <<rich, env_key, API_KEY, cache, clock>>
    /\ UNCHANGED standaloneVars

\* line 213
FetchNews(r) ==
    /\ req[r].pc = "fetch_news"
    /\ \E up \in NewsInputs :
          LET run == fetch_web_news(NewsDefaultLimit, up) IN
          req' = [req EXCEPT ![r].pc = "synth",
                             ![r].news = run.results,
                             ![r].news_raised = run.raised,
                             ![r].searches = run.searches]
    /\ UNCHANGED <<rich, env_key, API_KEY, cache, clock>>
    /\ UNCHANGED standaloneVars

\* lines 214-217
Synthesize(r) ==
    /\ req[r].pc = "synth"
    /\ \E lst \in ListingInputs, gen \in GenInputs :
          req' = [req EXCEPT ![r].pc = "respond",
                             ![r].syn = Some(generate_synthesis_raw_http(
                                 API_KEY, req[r].papers \o req[r].news, lst, gen))]
    /\ UNCHANGED <<rich, env_key, API_KEY, cache, clock>>
    /\ UNCHANGED standaloneVars

\* lines 219-228
Respond(r) ==
    /\ req[r].pc = "respond"
    /\ LET response == FeedResponse(req[r].syn[1], req[r].now,
                                    req[r].papers \o req[r].news)
       IN IF response = None
          THEN /\ req' = [req EXCEPT ![r].pc = "raised"]
               /\ UNCHANGED cache
          ELSE /\ cache' = [data |-> response, last_updated |-> Some(req[r].now)]
               /\ req' = [req EXCEPT ![r].pc = "done", ![r].resp = response]
    /\ UNCHANGED <<rich, env_key, API_KEY, clock>>
    /\ UNCHANGED standaloneVars

\* time passes, also while a handler waits for an upstream answer
Tick ==
    /\ clock + Quantum <= MaxClock
    /\ clock' = clock + Quantum
    /\ UNCHANGED <<rich, env_key, API_KEY, cache, req>>
    /\ UNCHANGED standaloneVars

Idle == [pc |-> "kw", k |-> 1, i |-> 1, results |-> <<>>, searches |-> 0,
         raised |-> FALSE]

NoFetchRun ==
    /\ nlimit = 0
    /\ nup = <<FailBatch, FailBatch, FailBatch>>
    /\ nst = Idle
    /\ pup = [fail |-> TRUE, items |-> <<>>]
    /\ pres = None

NoModelRun ==
    /\ listing = [exc |-> TRUE, status |-> 0, json_ok |-> FALSE, models |-> <<>>]
    /\ mres = None

InitFeed(r) ==
    /\ rich = r
    /\ env_key \in EnvKeys
    /\ API_KEY = LoadApiKey(env_key)
    /\ cache = [data |-> None, last_updated |-> None]
    /\ clock = StartClock
    /\ req = [q \in Reqs |-> ReqInit]

Init == InitFeed(FALSE) /\ NoFetchRun /\ NoModelRun

InitRefresh == InitFeed(TRUE) /\ NoFetchRun /\ NoModelRun

Next ==
    \/ \E r \in Reqs : ServeCached(r)
    \/ \E r \in Reqs : BeginRefresh(r)
    \/ \E r \in Reqs : FetchPapers(r)
    \/ \E r \in Reqs : FetchNews(r)
    \/ \E r \in Reqs : Synthesize(r)
    \/ \E r \in Reqs : Respond(r)
    \/ Tick

Spec == Init /\ [][Next]_vars

\* one refresh on the empty cache, over the rich input universe
NextRefresh ==
    \/ BeginRefresh(1)
    \/ FetchPapers(1)
    \/ FetchNews(1)
    \/ Synthesize(1)
    \/ Respond(1)
    \/ Tick

SpecRefresh == InitRefresh /\ [][NextRefresh]_vars

(***************************************************************************)
(* The fetchers run on their own, over every small upstream answer         *)
(***************************************************************************)
RECURSIVE FlagSeqs(_)
FlagSeqs(n) ==
    IF n = 0 THEN {<<>>}
    ELSE LET shorter == FlagSeqs(n - 1) IN
         shorter \cup {Append(f, b) : f \in {g \in shorter : Len(g) = n - 1},
                                      b \in BOOLEAN}

KeywordAnswers(k) ==
    {FailBatch} \cup
    {[fail |-> FALSE, items |-> [i \in 1..Len(f) |-> NewsItem(k, i, f[i])]] :
        f \in FlagSeqs(MaxBatch)}

PaperAnswers ==
    {[fail |-> b, items |-> [i \in 1..Len(f) |-> [entry |-> i, ok |-> f[i]]]] :
        b \in BOOLEAN, f \in FlagSeqs(MaxPapers)}

NewsLimits == 0..MaxLimit \cup {NewsDefaultLimit}

NewsStepAct ==
    /\ nst.pc # "done"
    /\ nst' = NewsStep(nst, nlimit, nup)
    /\ UNCHANGED <<nlimit, nup, pup, pres>>
    /\ UNCHANGED <<feedVars, modelVars>>

PapersAct ==
    /\ pres = None
    /\ pres' = Some(fetch_arxiv_papers(pup))
    /\ UNCHANGED <<nlimit, nup, nst, pup>>
    /\ UNCHANGED <<feedVars, modelVars>>

NoFeedRun ==
    /\ rich = FALSE
    /\ env_key = None
    /\ API_KEY = <<>>
    /\ cache = [data |-> None, last_updated |-> None]
    /\ clock = StartClock
    /\ req = [q \in Reqs |-> ReqInit]

InitFetch ==
    /\ NoFeedRun
    /\ NoModelRun
    /\ nlimit \in NewsLimits
    /\ nup \in {<<a, b, c>> : a \in KeywordAnswers(1), b \in KeywordAnswers(2),
                              c \in KeywordAnswers(3)}
    /\ nst = NewsStart
    /\ pup \in PaperAnswers
    /\ pres = None
    \* the two fetchers are exercised apart: one of the two inputs is the empty failure
    /\ \/ pup = [fail |-> TRUE, items |-> <<>>]
       \/ nlimit = 0 /\ nup = <<FailBatch, FailBatch, FailBatch>>

NextFetch ==
    \/ NewsStepAct
    \/ PapersAct

SpecFetch == InitFetch /\ [][NextFetch]_vars

(***************************************************************************)
(* get_best_available_model run on its own, over every small listing       *)
(***************************************************************************)
ModelNames ==
    {<<"models/", "gemini-1.5-flash">>,
     <<"models/", "gemini-1.5-flash", "-001">>,
     <<"models/", "gemini-1.5-pro", "-latest">>,
     <<"models/", "gemini-pro", "-vision">>,
     <<"models/", "gemini-1.0-pro">>,
     <<"models/", "gemini-2.0-flash">>,
     <<"models/", "embedding-001">>}

Entries == {Entry(n, m) : n \in ModelNames, m \in {Some(Generating), Some(Embedding), None}}

RECURSIVE EntrySeqs(_)
EntrySeqs(n) ==
    IF n = 0 THEN {<<>>}
    ELSE LET shorter == EntrySeqs(n - 1) IN
         shorter \cup {Append(s, e) : s \in {t \in shorter : Len(t) = n - 1},
                                      e \in Entries}

\* the provider lists a model once
DistinctNames(models) ==
    \A i, j \in 1..Len(models) : i # j => models[i].name # models[j].name

Listings ==
    {[exc |-> TRUE, status |-> 0, json_ok |-> FALSE, models |-> <<>>],
     [exc |-> FALSE, status |-> 403, json_ok |-> TRUE, models |-> <<>>],
     [exc |-> FALSE, status |-> HTTP_OK, json_ok |-> FALSE, models |-> <<>>]}
    \cup {OkListing(ms) : ms \in {t \in EntrySeqs(MaxModels) : DistinctNames(t)}}

DiscoverAct ==
    /\ mres = None
    /\ mres' = Some(get_best_available_model(listing))
    /\ UNCHANGED listing
    /\ UNCHANGED <<feedVars, newsVars, paperVars>>

InitModels ==
    /\ NoFeedRun
    /\ NoFetchRun
    /\ listing \in Listings
    /\ mres = None

NextModels == DiscoverAct

SpecModels == InitModels /\ [][NextModels]_vars

(***************************************************************************)
(* Properties of the /feed service                                         *)
(***************************************************************************)
Done(r) == req[r].pc = "done"

Response(r) == req[r].resp[1]

LLMCalls(r) ==
    IF req[r].syn = None THEN 0
    ELSE req[r].syn[1].discovery + req[r].syn[1].generate

UpstreamCalls(r) == req[r].paper_calls + req[r].searches + LLMCalls(r)

\* C1 as stated: of two answered requests whose start times are less than the TTL
\* apart, the second returns the response of the first and calls no upstream
\* service, whatever requests came before.
C1_AnyTwoRequestsWithinTTL ==
    \A r1, r2 \in Reqs :
        (r1 < r2 /\ Done(r1) /\ Done(r2) /\ req[r2].now - req[r1].now < TTL)
        => (req[r2].resp = req[r1].resp /\ UpstreamCalls(r2) = 0)

\* C1 amended: when the first request is the one that recomputed the feed, a request
\* starting less than the TTL after it returns the same response (synthesis,
\* timestamp, articles) from the cache and calls no upstream service.
C1_WithinTTLOfRefresh ==
    \A r1, r2 \in Reqs :
        (r1 < r2 /\ Done(r1) /\ req[r1].stale /\ Done(r2)
            /\ req[r2].now - req[r1].now < TTL)
        => (~req[r2].stale /\ req[r2].resp = req[r1].resp /\ UpstreamCalls(r2) = 0)

C1_Witness ==
    \E r1, r2 \in Reqs :
        /\ r1 < r2 /\ Done(r1) /\ req[r1].stale /\ Done(r2)
        /\ req[r2].now > req[r1].now
        /\ req[r2].now - req[r1].now < TTL

\* C2 as stated: no request ever ends by raising, whatever the upstream services
\* answer.
C2_NeverRaises == \A r \in Reqs : req[r].pc # "raised"

\* C3: with LLM_API_KEY unset or empty, the synthesis of every refresh is the fixed
\* non-empty offline string and neither the model listing nor generateContent is
\* requested.
C3_NoKeyNoLLM ==
    env_key \in {None, Some(<<>>)} =>
        \A r \in Reqs :
            /\ req[r].syn # None =>
                  /\ req[r].syn[1].value = SynthOffline
                  /\ req[r].syn[1].value # <<>>
                  /\ req[r].syn[1].discovery = 0
                  /\ req[r].syn[1].generate = 0
                  /\ req[r].syn[1].model = None
            /\ Done(r) => Response(r).synthesis = SynthOffline

C3_Witness ==
    /\ env_key \in {None, Some(<<>>)}
    /\ \E r \in Reqs : Done(r) /\ req[r].stale /\ Len(Response(r).articles) > 0

\* C4 as stated: of two answered requests more than the TTL apart, the second has
\* the strictly greater timestamp and always recomputes the feed.
C4_LaterAlwaysRecomputes ==
    \A r1, r2 \in Reqs :
        (r1 < r2 /\ Done(r1) /\ Done(r2) /\ req[r2].now - req[r1].now > TTL)
        => (TsLess(Response(r1).timestamp, Response(r2).timestamp) /\ req[r2].stale)

\* C4 amended: of two answered requests more than the TTL apart, the second has the
\* strictly greater timestamp; it recomputes the feed unless a request between the
\* two refreshed the cache less than the TTL before it, whose response it returns.
C4_LaterTimestampGreater ==
    \A r1, r2 \in Reqs :
        (r1 < r2 /\ Done(r1) /\ Done(r2) /\ req[r2].now - req[r1].now > TTL)
        => /\ TsLess(Response(r1).timestamp, Response(r2).timestamp)
           /\ \/ req[r2].stale
              \/ \E q \in Reqs :
                    /\ r1 < q /\ q < r2 /\ Done(q) /\ req[q].stale
                    /\ req[r2].now - req[q].now < TTL
                    /\ req[r2].resp = req[q].resp

C4_Witness ==
    /\ \E r1, r2 \in Reqs :
          /\ r1 < r2 /\ Done(r1) /\ Done(r2)
          /\ req[r2].now - req[r1].now > TTL /\ req[r2].stale
    /\ \E r1, r2 \in Reqs :
          /\ r1 < r2 /\ Done(r1) /\ Done(r2)
          /\ req[r2].now - req[r1].now > TTL /\ ~req[r2].stale

\* C6: the articles of a refreshed response are the first min(50, n) elements of
\* papers ++ news, papers first; never more than 50; only papers when the news
\* fetch failed.
C6_ArticlesArePrefix ==
    \A r \in Reqs :
        (Done(r) /\ req[r].stale) =>
            LET a == Response(r).articles
                all == req[r].papers \o req[r].news
            IN /\ Len(a) <= 50
               /\ Len(a) = Min(50, Len(all))
               /\ \A i \in 1..Len(a) : a[i] = all[i]
               /\ \A i, j \in 1..Len(a) :
                     (i < j /\ a[i].type = "news") => a[j].type = "news"
               /\ req[r].news_raised => \A i \in 1..Len(a) : a[i].type = "paper"

C6_Witness ==
    \E r \in Reqs :
        /\ Done(r) /\ req[r].stale
        /\ Len(req[r].papers) + Len(req[r].news) > 50
        /\ \E i \in 1..Len(Response(r).articles) : Response(r).articles[i].type = "news"

\* C8 as stated: nothing excludes a second request from the stale branch while a
\* first one is inside it: with the cache stale and a handler in the stale branch,
\* the next queued request can start its own refresh.
C8_NoMutualExclusion ==
    \A r, q \in Reqs :
        (req[r].pc \in Running /\ req[q].pc = "queued" /\ NextInLine(q)
            /\ ~IsFresh(cache, clock))
        => ENABLED BeginRefresh(q)

\* C8 amended: get_feed takes no lock, but as a coroutine without an await it runs
\* to its end before another request's handler starts: at most one request is in
\* the stale branch; a later request takes the stale branch too only when the
\* earlier one raised or started at least the TTL before it; and the cache holds
\* the response of the last request that completed the stale branch.
C8_HandlersSerialized ==
    /\ Cardinality({r \in Reqs : req[r].pc \in Running}) <= 1
    /\ \A r, q \in Reqs :
          (r < q /\ req[r].stale /\ req[q].stale)
          => /\ req[r].pc \in Finished
             /\ req[r].pc = "raised" \/ req[q].now - req[r].now >= TTL
    /\ cache.data # None =>
          \E r \in Reqs :
              /\ Done(r) /\ req[r].stale
              /\ cache.data = req[r].resp
              /\ cache.last_updated = Some(req[r].now)
              /\ \A q \in Reqs : (q > r /\ req[q].stale) => ~Done(q)

C8_Witness ==
    \E r, q \in Reqs :
        /\ r < q /\ req[r].stale /\ req[q].stale /\ Done(r) /\ Done(q)
        /\ cache.data = req[q].resp

\* C10 as stated: every request that took the stale branch has written its response
\* and start time into the cache, so that every later request starting less than
\* the TTL after it is served that response without any upstream call.
C10_StaleBranchAlwaysCaches ==
    \A r \in Reqs :
        (req[r].stale /\ req[r].pc \in Finished) =>
            /\ cache.data # None
            /\ \A q \in Reqs :
                  (r < q /\ req[q].pc \in Finished /\ req[q].now - req[r].now < TTL)
                  => /\ Done(r) /\ Done(q)
                     /\ ~req[q].stale
                     /\ req[q].resp = req[r].resp
                     /\ UpstreamCalls(q) = 0

(***************************************************************************)
(* Properties of the fetchers                                              *)
(***************************************************************************)
IsOk(x) == x.ok

\* the Articles of the well-formed records of the paper batch, in upstream order
ExpectedPapers ==
    LET wf == SelectSeq(pup.items, IsOk)
    IN [j \in 1..Len(wf) |-> PaperArticle(wf[j])]

\* the Articles of the well-formed items of the three batches, in upstream order,
\* up to the limit
ExpectedNews ==
    LET wf == SelectSeq(nup[1].items \o nup[2].items \o nup[3].items, IsOk)
    IN [j \in 1..Min(nlimit, Len(wf)) |-> NewsArticle(wf[j], j - 1)]

\* C5 as stated: in both fetchers a record that fails to map is skipped and the
\* rest of the batch is returned: when no upstream call fails as a whole, the
\* result is the Articles of the well-formed records, in order, up to the limit.
C5_MalformedItemSkipped ==
    /\ (pres # None /\ ~pup.fail) => pres[1] = ExpectedPapers
    /\ (nst.pc = "done" /\ nlimit >= 1 /\ \A k \in 1..NumKeywords : ~nup[k].fail)
       => nst.results = ExpectedNews

\* the number of articles accumulated when the k-th keyword search is issued
RECURSIVE CountBefore(_)
CountBefore(k) == IF k <= 1 THEN 0 ELSE CountBefore(k - 1) + Len(nup[k - 1].items)

\* C7 as stated: for every limit, 0 included, at most `limit` articles are
\* returned and every keyword search was issued while the count was below the limit.
C7_AnyLimitRespected ==
    nst.pc = "done" =>
        /\ Len(nst.results) <= nlimit
        /\ \A k \in 1..nst.searches : CountBefore(k) < nlimit

\* C7 amended: for every limit >= 1 at most `limit` articles are returned, the run
\* is over as soon as the count reaches the limit (nothing is appended and no
\* keyword is searched after that), and every search was issued below the limit;
\* with limit 0 the first keyword is still searched and its first item appended:
\* one search, at most one article.
C7_PositiveLimitRespected ==
    /\ nlimit >= 1 =>
          /\ Len(nst.results) <= nlimit
          /\ Len(nst.results) >= nlimit => nst.pc = "done"
          /\ nst.pc = "done" => \A k \in 1..nst.searches : CountBefore(k) < nlimit
    /\ (nlimit = 0 /\ nst.pc = "done") =>
          /\ Len(nst.results) <= 1
          /\ nst.searches = 1

C7_Witness ==
    /\ nlimit >= 1
    /\ nst.pc = "done"
    /\ Len(nst.results) = nlimit
    /\ nst.searches < NumKeywords
    /\ Len(nup[nst.searches].items) > nst.i

(***************************************************************************)
(* Properties of the model discovery                                       *)
(***************************************************************************)
Capable(m) == m.methods # None /\ "generateContent" \in m.methods[1]

ListingOk == ~listing.exc /\ listing.status = 200 /\ listing.json_ok

WellFormedListing == \A i \in 1..Len(listing.models) : listing.models[i].methods # None

Matches(p, i) ==
    Capable(listing.models[i]) /\ Contains(priorities[p], listing.models[i].name)

MatchedPriorities == {p \in 1..Len(priorities) : \E i \in 1..Len(listing.models) : Matches(p, i)}

CapableEntries == {i \in 1..Len(listing.models) : Capable(listing.models[i])}

Least(S) == CHOOSE x \in S : \A y \in S : x <= y

\* the name C9 prescribes
ExpectedModel ==
    IF ~ListingOk THEN DefaultModel
    ELSE IF MatchedPriorities # {}
         THEN LET p == Least(MatchedPriorities)
                  i == Least({j \in 1..Len(listing.models) : Matches(p, j)})
              IN StripModels(listing.models[i].name)
    ELSE IF CapableEntries # {}
         THEN StripModels(listing.models[Least(CapableEntries)].name)
    ELSE DefaultModel

\* the names of the listed models that lack generateContent
IncapableNames ==
    IF ~ListingOk THEN {}
    ELSE {StripModels(listing.models[i].name) :
             i \in {j \in 1..Len(listing.models) :
                       listing.models[j].methods # None /\ ~Capable(listing.models[j])}}

\* C9 as stated: the prescribed name is returned, and the returned name is never
\* that of a listed model without generateContent.
C9_NeverAnIncapableModel ==
    mres # None =>
        /\ WellFormedListing => mres[1] = ExpectedModel
        /\ mres[1] \notin IncapableNames

\* C9 amended: the prescribed name is returned (the default too when an entry of
\* the listing is malformed), and the returned name is that of a listed model with
\* generateContent or the hardcoded default, which may itself be the name of a
\* listed model without generateContent.
C9_PriorityThenAnyThenDefault ==
    mres # None =>
        /\ WellFormedListing => mres[1] = ExpectedModel
        /\ mres[1] \in {DefaultModel, ExpectedModel}
        /\ \/ mres[1] = DefaultModel
           \/ /\ ListingOk
              /\ \E i \in CapableEntries : mres[1] = StripModels(listing.models[i].name)
        /\ mres[1] \in IncapableNames => mres[1] = DefaultModel

C9_Witness ==
    /\ mres # None
    /\ ListingOk /\ WellFormedListing
    /\ Cardinality(MatchedPriorities) >= 2
    /\ \E i \in 1..Len(listing.models) :
          /\ Capable(listing.models[i])
          /\ i < Least({j \in 1..Len(listing.models) : Matches(Least(MatchedPriorities), j)})
    /\ mres[1] # DefaultModel

====
